---- MODULE Spec2Model ----
(***************************************************************************)
(* Model of the simulation loop of src/main.cpp: class Object (accelerate, *)
(* updatePosition, CheckCollision) and the per-frame physics block of      *)
(* main().                                                                 *)
(*                                                                         *)
(* Numbers.  The program computes in IEEE single precision; the model      *)
(* computes on an integer grid, rounding to the nearest grid point where   *)
(* the program rounds to the nearest float:                                *)
(*   position, radius : 1 unit = 1e-4 of a simulation-space unit, so the   *)
(*                      constant 1.0f is ONE = 10000;                      *)
(*   velocity         : 1 unit = 2 m/s, so that one tick of TIME_SCALE     *)
(*                      seconds moves a body by velocity * TIME_SCALE *    *)
(*                      SPACE_SCALE = StepPerVel position units;           *)
(*   realRadius       : kilometres;                                        *)
(*   mass             : 1 unit = 1e20 kg.                                  *)
(* Sequences are 1-based: position[X] is the program's position[0] and     *)
(* position[Y] is the program's position[1].                               *)
(***************************************************************************)
EXTENDS Integers, Sequences, FiniteSets, TLC

(* ------------------------------ bounds -------------------------------- *)
MaxTicks == 3
MaxBodies == 3

(* ------------------------ program constants --------------------------- *)
X == 1
Y == 2
ONE == 10000
TIME_SCALE == 50000
MetresPerUnit == 100000
KmPerUnit == 100
VelUnit == 2
StepPerVel == (VelUnit * TIME_SCALE) \div MetresPerUnit
GScaled == 16685

(* --------------------------- arithmetic ------------------------------- *)
Abs(a) == IF a < 0 THEN -a ELSE a

\* division rounded to the nearest integer, symmetric in the sign of a (b > 0)
RDiv(a, b) == IF a < 0 THEN -((-a + b \div 2) \div b) ELSE (a + b \div 2) \div b

RECURSIVE SqrtSearch(_, _, _)
SqrtSearch(n, lo, hi) ==
    IF lo >= hi THEN lo
    ELSE LET mid == (lo + hi + 1) \div 2
         IN  IF mid * mid <= n THEN SqrtSearch(n, mid, hi)
             ELSE SqrtSearch(n, lo, mid - 1)

\* std::sqrt on the grid: the largest integer whose square is at most n
Sqrt(n) == SqrtSearch(n, 0, 46340)

(* ------------------------------ Object -------------------------------- *)
Object(position, velocity, radius, mass, realRadius) ==
    [position |-> position, velocity |-> velocity, radius |-> radius,
     mass |-> mass, realRadius |-> realRadius]

\* velocity += (x, y) * TIME_SCALE; x and y arrive already multiplied by
\* TIME_SCALE (see acceleration)
accelerate(obj, x, y) ==
    [obj EXCEPT !.velocity = <<@[X] + x, @[Y] + y>>]

\* updatePosition that leaves TIME_SCALE * SPACE_SCALE out of the product
updatePositionUnscaled(obj) ==
    [obj EXCEPT !.position = <<@[X] + obj.velocity[X] * VelUnit,
                               @[Y] + obj.velocity[Y] * VelUnit>>]

updatePosition(obj) ==
    [obj EXCEPT !.position = <<@[X] + obj.velocity[X] * StepPerVel,
                               @[Y] + obj.velocity[Y] * StepPerVel>>]

\* sqrt(dx * dx + dy * dy) with d = other.position - this.position
distance(this, other) ==
    LET dx == other.position[X] - this.position[X]
        dy == other.position[Y] - this.position[Y]
    IN  Sqrt(dx * dx + dy * dy)

Collides(this, other) == other.radius + this.radius > distance(this, other)

Negate(obj) == [obj EXCEPT !.velocity = <<-@[X], -@[Y]>>]

\* CheckCollision that forgets the two lines on other.velocity
CheckCollisionThisOnly(os, a, b) ==
    IF Collides(os[a], os[b])
    THEN [os EXCEPT ![a] = Negate(@)]
    ELSE os

\* CheckCollision that also moves other off this
CheckCollisionSeparating(os, a, b) ==
    IF Collides(os[a], os[b])
    THEN [os EXCEPT ![a] = Negate(@),
                    ![b] = [Negate(@) EXCEPT !.position[X] = @ + os[a].radius]]
    ELSE os

\* obj.CheckCollision(other) on the body list: os[a] is this, os[b] is other
CheckCollision(os, a, b) ==
    IF Collides(os[a], os[b])
    THEN [os EXCEPT ![a] = Negate(@), ![b] = Negate(@)]
    ELSE os

(* ----------------------- pairwise gravitation ------------------------- *)
\* distanceSim / SPACE_SCALE, in kilometres
distanceReal(obj, obj2) == distance(obj, obj2) * KmPerUnit

\* the cutoff with obj2.realRadius left out
TooCloseOwnRadius(obj, obj2) == distanceReal(obj, obj2) < obj.realRadius

TooClose(obj, obj2) == distanceReal(obj, obj2) < obj.realRadius + obj2.realRadius

\* (G * obj.mass * obj2.mass) / (distanceReal * distanceReal) / obj.mass,
\* times TIME_SCALE, in velocity units: obj.mass > 0 cancels
acceleration(obj, obj2) ==
    LET d == distance(obj, obj2)
    IN  RDiv(GScaled * obj2.mass, d * d)

\* the force-loop iteration with the displacement taken as obj - obj2
AttractAway(obj, obj2) ==
    LET dx == obj.position[X] - obj2.position[X]
        dy == obj.position[Y] - obj2.position[Y]
        d  == distance(obj, obj2)
        a  == acceleration(obj, obj2)
    IN  accelerate(obj, RDiv(a * dx, d), RDiv(a * dy, d))

\* the body obj after the force-loop iteration for peer obj2 (not too close)
Attract(obj, obj2) ==
    LET dx == obj2.position[X] - obj.position[X]
        dy == obj2.position[Y] - obj.position[Y]
        d  == distance(obj, obj2)
        a  == acceleration(obj, obj2)
    IN  accelerate(obj, RDiv(a * dx, d), RDiv(a * dy, d))

(* ------------------------- screen boundaries -------------------------- *)
\* a clamp that stops the body on the axis instead of reflecting it
ClampAxisStop(obj, ax) ==
    IF obj.position[ax] - obj.radius < -ONE
    THEN [obj EXCEPT !.position[ax] = -ONE + obj.radius, !.velocity[ax] = 0]
    ELSE IF obj.position[ax] + obj.radius > ONE
    THEN [obj EXCEPT !.position[ax] = ONE - obj.radius, !.velocity[ax] = 0]
    ELSE obj

\* a clamp that reflects the velocity of the -1 edge only
ClampAxisNoFlip(obj, ax) ==
    IF obj.position[ax] - obj.radius < -ONE
    THEN [obj EXCEPT !.position[ax] = -ONE + obj.radius,
                     !.velocity[ax] = -obj.velocity[ax]]
    ELSE IF obj.position[ax] + obj.radius > ONE
    THEN [obj EXCEPT !.position[ax] = ONE - obj.radius]
    ELSE obj

\* a clamp that puts the centre, not the edge, on the screen border
ClampAxisCentre(obj, ax) ==
    IF obj.position[ax] - obj.radius < -ONE
    THEN [obj EXCEPT !.position[ax] = -ONE,
                     !.velocity[ax] = -obj.velocity[ax]]
    ELSE IF obj.position[ax] + obj.radius > ONE
    THEN [obj EXCEPT !.position[ax] = ONE,
                     !.velocity[ax] = -obj.velocity[ax]]
    ELSE obj

\* the if / else-if pair of one axis: the -1 edge is tested first
ClampAxis(obj, ax) ==
    IF obj.position[ax] - obj.radius < -ONE
    THEN [obj EXCEPT !.position[ax] = -ONE + obj.radius,
                     !.velocity[ax] = -obj.velocity[ax]]
    ELSE IF obj.position[ax] + obj.radius > ONE
    THEN [obj EXCEPT !.position[ax] = ONE - obj.radius,
                     !.velocity[ax] = -obj.velocity[ax]]
    ELSE obj

(* --------------------------- initial bodies --------------------------- *)
\* the list objs of the source: Earth at the centre, Moon to the right
Earth == Object(<<0, 0>>, <<0, 0>>, 1000, 59700, 6371)
Moon == Object(<<3840, 0>>, <<0, 511>>, 500, 735, 1737)
SourceObjs == <<Earth, Moon>>

\* other body lists the loop can be started on: <<radius, mass, realRadius>>
Kinds == {<<1000, 5000, 6371>>, <<500, 735, 1737>>}
Positions == {<<0, 0>>, <<3840, 0>>, <<1920, 0>>, <<-1920, 0>>, <<30, 0>>,
              <<9600, -9600>>}
Velocities == {<<0, 0>>, <<0, 511>>, <<0, -511>>, <<300, -300>>}

\* bodies wider than the screen
Wide == {Object(<<0, 0>>, <<0, 511>>, 12000, 735, 1737),
         Object(<<1920, 0>>, <<300, -300>>, 12000, 735, 1737)}

Bodies == {Object(p, v, k[1], k[2], k[3]) :
               p \in Positions, v \in Velocities, k \in Kinds}
          \cup Wide \cup {Earth, Moon}

\* the body at index k >= 3 of a longer list
Extra(k) == Object(<<0, 400 * (k - 2)>>, <<0, 0>>, 500, 735, 1737)

\* G * obj.mass * obj2.mass is a finite float: the product of the two masses
\* is at most FLT_MAX / G = 5.0986e48 kg^2
MaxMassProduct == 509860000
FiniteForce(a, b) == a.mass <= MaxMassProduct \div b.mass

BodyPairs == {pr \in Bodies \X Bodies : FiniteForce(pr[1], pr[2])}

BodyLists ==
    {<<a>> : a \in Bodies} \cup
    UNION {{<<pr[1], pr[2]>> \o [k \in 1..m |-> Extra(k + 2)] : pr \in BodyPairs} :
               m \in 0..(MaxBodies - 2)}

(* ------------------------------- state -------------------------------- *)
VARIABLES
    objs,     \* the vector of bodies
    tick,     \* completed iterations of the frame loop
    phase,    \* position of main() in the loop body
    i,        \* index of obj, the body of the outer loop
    j,        \* index of obj2 / objs[j], the body of the inner loop
    calls,    \* history: CheckCollision invocations of this tick per pair
    last,     \* history: the last step, its bodies and objs before it
    slot,     \* history: objs[i] when the outer loop reached body i
    objs0     \* history: objs at program start

vars == <<objs, tick, phase, i, j, calls, last, slot, objs0>>

n == Len(objs)

Pairs == {pr \in (1..n) \X (1..n) : pr[1] < pr[2]}

Pair(a, b) == IF a < b THEN <<a, b>> ELSE <<b, a>>

NoCalls == [pr \in Pairs |-> 0]

Step(op) == [op |-> op, i |-> i, j |-> j, prev |-> objs]

Init ==
    /\ objs \in BodyLists
    /\ tick = 0
    /\ phase = "top"
    /\ i = 0
    /\ j = 0
    /\ calls = NoCalls
    /\ last = [op |-> "start", i |-> 0, j |-> 0, prev |-> objs]
    /\ slot = objs[1]
    /\ objs0 = objs

(* ------------------------------ the loop ------------------------------ *)
\* while (!glfwWindowShouldClose(window)): enter the body, one more frame
BeginTick ==
    /\ phase = "top"
    /\ tick < MaxTicks
    /\ phase' = "force"
    /\ i' = 1
    /\ j' = 1
    /\ calls' = NoCalls
    /\ slot' = objs[1]
    /\ last' = Step("frame")
    /\ UNCHANGED <<objs, tick, objs0>>

\* the window was closed: the loop ends
Close ==
    /\ phase = "top"
    /\ phase' = "done"
    /\ last' = Step("close")
    /\ UNCHANGED <<objs, tick, i, j, calls, slot, objs0>>

\* the inner force loop moves to the next obj2, or ends
ForceAdvance ==
    IF j < n THEN phase' = "force" /\ j' = j + 1
    ELSE phase' = "integrate" /\ j' = 0

\* if (&obj2 == &obj) continue;
ForceSelf ==
    /\ phase = "force"
    /\ j = i
    /\ ForceAdvance
    /\ last' = Step("self")
    /\ UNCHANGED <<objs, tick, i, calls, slot, objs0>>

\* if (distanceReal < obj.realRadius + obj2.realRadius) continue;
ForceSkip ==
    /\ phase = "force"
    /\ j # i
    /\ TooClose(objs[i], objs[j])
    /\ ForceAdvance
    /\ last' = Step("skip")
    /\ UNCHANGED <<objs, tick, i, calls, slot, objs0>>

\* direction, force, acceleration, obj.accelerate(...)
ForceAccelerate ==
    /\ phase = "force"
    /\ j # i
    /\ ~TooClose(objs[i], objs[j])
    /\ objs' = [objs EXCEPT ![i] = Attract(objs[i], objs[j])]
    /\ ForceAdvance
    /\ last' = Step("accelerate")
    /\ UNCHANGED <<tick, i, calls, slot, objs0>>

\* obj.updatePosition(); obj.DrawCircle(...) draws and changes nothing
UpdatePosition ==
    /\ phase = "integrate"
    /\ objs' = [objs EXCEPT ![i] = updatePosition(objs[i])]
    /\ phase' = "boundaryY"
    /\ last' = Step("updatePosition")
    /\ UNCHANGED <<tick, i, j, calls, slot, objs0>>

\* screen boundaries, position[1] / velocity[1]
BoundaryY ==
    /\ phase = "boundaryY"
    /\ objs' = [objs EXCEPT ![i] = ClampAxis(objs[i], Y)]
    /\ phase' = "boundaryX"
    /\ last' = Step("boundaryY")
    /\ UNCHANGED <<tick, i, j, calls, slot, objs0>>

\* screen boundaries, position[0] / velocity[0]
BoundaryX ==
    /\ phase = "boundaryX"
    /\ objs' = [objs EXCEPT ![i] = ClampAxis(objs[i], X)]
    /\ phase' = "collide"
    /\ j' = 1
    /\ last' = Step("boundaryX")
    /\ UNCHANGED <<tick, i, calls, slot, objs0>>

\* the collision loop moves to the next j; after the last j the outer loop
\* moves to the next obj, or the loop body reaches glfwSwapBuffers
CollideAdvance(os) ==
    IF j < n THEN phase' = "collide" /\ i' = i /\ j' = j + 1 /\ slot' = slot
    ELSE IF i < n THEN phase' = "force" /\ i' = i + 1 /\ j' = 1 /\ slot' = os[i + 1]
    ELSE phase' = "swap" /\ i' = 0 /\ j' = 0 /\ slot' = slot

\* if (&obj != &objs[j]) fails: nothing is called
CollideSelf ==
    /\ phase = "collide"
    /\ j = i
    /\ CollideAdvance(objs)
    /\ last' = Step("same")
    /\ UNCHANGED <<objs, tick, calls, objs0>>

\* obj.CheckCollision(objs[j]);
CollideCheck ==
    /\ phase = "collide"
    /\ j # i
    /\ objs' = CheckCollision(objs, i, j)
    /\ calls' = [calls EXCEPT ![Pair(i, j)] = @ + 1]
    /\ CollideAdvance(objs')
    /\ last' = Step("CheckCollision")
    /\ UNCHANGED <<tick, objs0>>

\* glfwSwapBuffers(window); glfwPollEvents(); the frame is complete
SwapBuffers ==
    /\ phase = "swap"
    /\ phase' = "top"
    /\ tick' = tick + 1
    /\ last' = Step("swap")
    /\ UNCHANGED <<objs, i, j, calls, slot, objs0>>

Next ==
    \/ BeginTick
    \/ Close
    \/ ForceSelf
    \/ ForceSkip
    \/ ForceAccelerate
    \/ UpdatePosition
    \/ BoundaryY
    \/ BoundaryX
    \/ CollideSelf
    \/ CollideCheck
    \/ SwapBuffers

Spec == Init /\ [][Next]_vars

TypeOK ==
    /\ phase \in {"top", "force", "integrate", "boundaryY", "boundaryX",
                  "collide", "swap", "done"}
    /\ tick \in 0..MaxTicks
    /\ i \in 0..n
    /\ j \in 0..n
    /\ n = Len(objs0)

(* ------------------------------ properties ---------------------------- *)
Neg(v) == <<-v[X], -v[Y]>>

Other(ax) == IF ax = X THEN Y ELSE X

\* the frame loop is between two frames, at least one frame is complete
EndOfTick == phase = "top" /\ tick >= 1

C2Unchanged ==
    n = 1 => objs = objs0

\* C2 amended: a single body is never accelerated (no self-force): after its
\* force loop its velocity is the one it entered the loop with, each velocity
\* component keeps its initial magnitude (only a boundary clamp flips its
\* sign), and a body that starts at rest within the screen keeps its initial
\* position and velocity.
C2NoSelfForce ==
    n = 1 =>
        /\ phase = "integrate" => objs[1] = slot
        /\ \A ax \in {X, Y} :
               Abs(objs[1].velocity[ax]) = Abs(objs0[1].velocity[ax])
        /\ ( /\ objs0[1].velocity = <<0, 0>>
             /\ \A ax \in {X, Y} :
                    /\ objs0[1].position[ax] - objs0[1].radius >= -ONE
                    /\ objs0[1].position[ax] + objs0[1].radius <= ONE )
           => objs = objs0

C2Witness ==
    /\ n = 1
    /\ EndOfTick
    /\ tick >= 2
    /\ objs[1].velocity = objs0[1].velocity
    /\ objs[1].velocity # <<0, 0>>
    /\ objs[1].position # objs0[1].position

\* the axis a boundary step works on
AxisOf(op) == IF op = "boundaryX" THEN X ELSE Y

\* C3 as stated: whenever the edge is beyond +1 on the axis of a boundary step,
\* the step sets position to 1 - radius and flips the velocity of that axis.
C3UpperAlways ==
    last.op \in {"boundaryX", "boundaryY"} =>
        LET ax == AxisOf(last.op)
            p == last.prev[last.i]
            o == objs[last.i]
        IN  p.position[ax] + p.radius > ONE =>
                /\ o.position[ax] = ONE - p.radius
                /\ o.velocity[ax] = -p.velocity[ax]

\* C3 amended: the boundary step of an axis sets position to -1 + radius and
\* flips that axis's velocity whenever the edge is beyond -1; it sets position
\* to 1 - radius and flips that axis's velocity whenever the edge is beyond +1
\* and not also beyond -1 (the -1 edge is tested first); the other axis's
\* position and velocity are left as they were.
C3Reflection ==
    last.op \in {"boundaryX", "boundaryY"} =>
        LET ax == AxisOf(last.op)
            p == last.prev[last.i]
            o == objs[last.i]
        IN  /\ p.position[ax] - p.radius < -ONE =>
                /\ o.position[ax] = -ONE + p.radius
                /\ o.velocity[ax] = -p.velocity[ax]
            /\ (p.position[ax] - p.radius >= -ONE /\ p.position[ax] + p.radius > ONE) =>
                /\ o.position[ax] = ONE - p.radius
                /\ o.velocity[ax] = -p.velocity[ax]
            /\ o.position[Other(ax)] = p.position[Other(ax)]
            /\ o.velocity[Other(ax)] = p.velocity[Other(ax)]

C3Witness ==
    /\ last.op = "boundaryX"
    /\ last.prev[last.i].position[X] + last.prev[last.i].radius > ONE
    /\ last.prev[last.i].position[X] - last.prev[last.i].radius >= -ONE
    /\ last.prev[last.i].velocity[X] # 0
    /\ objs[last.i].position[X] = ONE - objs[last.i].radius

\* body k has had its boundary step in the current frame, or a frame is over
AfterBoundary(k) ==
    \/ phase \in {"top", "done"} /\ tick >= 1
    \/ phase = "swap"
    \/ phase \in {"force", "integrate", "boundaryY", "boundaryX", "collide"} /\ i > k
    \/ phase = "collide" /\ i = k

C5SkipIsSilent ==
    [][ ( /\ phase = "force"
          /\ j # i
          /\ LET dx == objs[j].position[X] - objs[i].position[X]
                 dy == objs[j].position[Y] - objs[i].position[Y]
                 rr == objs[i].realRadius + objs[j].realRadius
             IN  dx * dx + dy * dy <= (rr * rr - 1) \div (KmPerUnit * KmPerUnit) )
        => /\ objs' = objs
           /\ i' = i
           /\ IF j < n THEN phase' = "force" /\ j' = j + 1
              ELSE phase' = "integrate" ]_vars

C5Witness ==
    /\ last.op = "skip"
    /\ objs = last.prev
    /\ last.prev[last.i].position # last.prev[last.j].position
    /\ phase = "force"
    /\ j = last.j + 1

\* C7: a collision test that finds the distance of the two positions less
\* than the sum of the display radii negates both velocity components of both
\* bodies and changes nothing else; otherwise it changes nothing.
C7Response ==
    last.op = "CheckCollision" =>
        LET a == last.prev[last.i]
            b == last.prev[last.j]
            dx == b.position[X] - a.position[X]
            dy == b.position[Y] - a.position[Y]
            rs == a.radius + b.radius
        IN  IF dx * dx + dy * dy < rs * rs
            THEN objs = [last.prev EXCEPT
                            ![last.i].velocity = Neg(a.velocity),
                            ![last.j].velocity = Neg(b.velocity)]
            ELSE objs = last.prev

C7Witness ==
    /\ last.op = "CheckCollision"
    /\ objs[last.i].velocity = Neg(last.prev[last.i].velocity)
    /\ objs[last.j].velocity = Neg(last.prev[last.j].velocity)
    /\ objs[last.i].velocity # <<0, 0>>
    /\ objs[last.j].velocity # <<0, 0>>

\* the program's own bodies, after exactly one frame
AfterFirstTick == objs0 = SourceObjs /\ tick = 1 /\ phase = "top"

\* C8 as stated: after one frame the Moon's velocity[1] is less than at start.
C8MoonVy ==
    AfterFirstTick => objs[2].velocity[Y] < objs0[2].velocity[Y]

\* C8 amended: after one frame the Moon's velocity[0] is less than its
\* initial value 0 (Earth lies in the -x direction) and its velocity[1] still
\* has its initial value.
C8MoonVx ==
    AfterFirstTick =>
        /\ objs[2].velocity[X] < objs0[2].velocity[X]
        /\ objs[2].velocity[Y] = objs0[2].velocity[Y]

C8Witness ==
    /\ AfterFirstTick
    /\ objs[2].velocity[X] < 0
    /\ objs[1].velocity[X] > 0

\* C9 as stated: updatePosition moves the body by the velocity it had when
\* its slot of the frame began, before the accelerations of the frame.
C9PreVelocity ==
    last.op = "updatePosition" =>
        \A ax \in {X, Y} :
            objs[last.i].position[ax] =
                slot.position[ax] + slot.velocity[ax] * StepPerVel

\* C9 amended: updatePosition moves the body, from the position it had when
\* its slot of the frame began, by the velocity it has after the accelerations
\* of the frame were applied to it.
C9PostVelocity ==
    last.op = "updatePosition" =>
        \A ax \in {X, Y} :
            objs[last.i].position[ax] =
                slot.position[ax] + objs[last.i].velocity[ax] * StepPerVel

C9Witness ==
    /\ last.op = "updatePosition"
    /\ objs0 = SourceObjs
    /\ tick = 0
    /\ last.i = 2
    /\ objs[2].velocity # slot.velocity
    /\ objs[2].position[X] < slot.position[X]

C10OwnPassOnly ==
    \A k \in 1..n : objs[k] # last.prev[k] => last.i = k

\* C10 amended: the pass of a body runs force accumulation, integration,
\* boundary clamp, collision tests in this order, one pass per body per
\* frame; a body's position is written only by the integration and boundary
\* steps of its own pass; its velocity is written only by the force,
\* boundary and collision steps of its own pass and by the collision tests
\* of other bodies' passes that test against it.
C10Writes ==
    /\ \A k \in 1..n :
        /\ objs[k].position # last.prev[k].position =>
               last.i = k /\ last.op \in {"updatePosition", "boundaryY", "boundaryX"}
        /\ objs[k].velocity # last.prev[k].velocity =>
               \/ last.i = k /\ last.op \in {"accelerate", "boundaryY", "boundaryX",
                                             "CheckCollision"}
               \/ last.j = k /\ last.op = "CheckCollision"
        /\ objs[k].radius = objs0[k].radius
        /\ objs[k].mass = objs0[k].mass
        /\ objs[k].realRadius = objs0[k].realRadius
    /\ last.op = "frame" => phase = "force" /\ i = 1
    /\ last.op \in {"self", "skip", "accelerate"} =>
           phase \in {"force", "integrate"} /\ i = last.i
    /\ last.op = "updatePosition" => phase = "boundaryY" /\ i = last.i
    /\ last.op = "boundaryY" => phase = "boundaryX" /\ i = last.i
    /\ last.op = "boundaryX" => phase = "collide" /\ i = last.i
    /\ last.op \in {"same", "CheckCollision"} =>
           \/ phase = "collide" /\ i = last.i
           \/ phase = "force" /\ i = last.i + 1
           \/ phase = "swap" /\ last.i = n

C10Witness ==
    /\ last.op = "CheckCollision"
    /\ last.i # last.j
    /\ objs[last.j].velocity # last.prev[last.j].velocity
    /\ objs[last.j].position = last.prev[last.j].position
    /\ n >= 3

====
